---- MODULE Spec2Model ----
(***************************************************************************)
(* sourcegraph/syntaxhighlight: the scanners (the bufio split functions of *)
(* the two earlier revisions and the text/scanner configuration of         *)
(* highlight.go), the Annotate and Print drivers, HTMLAnnotator,           *)
(* HTMLPrinter and NilAnnotator.                                           *)
(*                                                                         *)
(* Byte strings are sequences of byte values, rune slices are sequences of *)
(* code points.  Go's 0-based half-open slices are written with At and Sub.*)
(***************************************************************************)
EXTENDS Integers, Sequences, FiniteSets, TLC

VARIABLES
  src,       \* the input buffer
  start,     \* the scanner's offset: the first byte not yet consumed
  eof,       \* bufio.Scanner has seen io.EOF
  st,        \* the Scanner fields the split function keeps (kind, quot, typ, name)
  pc,        \* "scan" while the driver loops, "done" once it has returned
  serr,      \* Scanner.Err()
  toks,      \* the tokens handed to the callback so far: text, kind, offset
  read,      \* Annotate's cursor
  anns,      \* Annotate's list
  ret,       \* what the driver returned
  consumer,  \* the callback driving the pass
  base,      \* NilAnnotator.byteOffset
  lines,     \* NilAnnotator.Code.Lines
  out,       \* what the sink has accepted
  wfail      \* a write to the sink has failed

hvars == <<consumer, base, lines, out, wfail>>

vars == <<src, start, eof, st, pc, serr, toks, read, anns, ret, consumer, base, lines, out, wfail>>

(***************************************************************************)
(* Go slices                                                               *)
(***************************************************************************)
At(s, i) == s[i + 1]

Sub(s, a, b) == SubSeq(s, a + 1, b)

SeqsUpTo(S, n) == UNION {[1..k -> S] : k \in 0..n}

RECURSIVE Flatten(_)
Flatten(ss) == IF ss = <<>> THEN <<>> ELSE Head(ss) \o Flatten(Tail(ss))

RECURSIVE SumLen(_)
SumLen(ss) == IF ss = <<>> THEN 0 ELSE Len(Head(ss)) + SumLen(Tail(ss))

(***************************************************************************)
(* Token kinds                                                             *)
(***************************************************************************)
WHITESPACE == 0
\* STRING (the name is a TLA+ builtin)
STRINGKIND == 1
KEYWORD == 2
COMMENT == 3
TYPE == 4
LITERAL == 5
PUNCTUATION == 6
PLAINTEXT == 7
TAG == 8
HTMLTAG == 9
HTMLATTRNAME == 10
HTMLATTRVALUE == 11
DECIMAL == 12

(***************************************************************************)
(* Characters the code names                                               *)
(***************************************************************************)
chTab == 9
chNewline == 10
chSpace == 32
chDoubleQuote == 34
chHash == 35
chAmp == 38
chSingleQuote == 39
chStar == 42
chSlash == 47
chLess == 60
chGreater == 62
chBackslash == 92
chUnderscore == 95
chBackquote == 96
RuneError == 65533

(***************************************************************************)
(* unicode/utf8, as far as the alphabets of the model reach: one-, two-    *)
(* and three-byte sequences; every other byte decodes to RuneError, width 1*)
(***************************************************************************)
IsCont(b) == b >= 128 /\ b <= 191

DecodeRune(b, i) ==
  LET c == At(b, i)
      n == Len(b) - i
  IN  IF c < 128 THEN [r |-> c, w |-> 1]
      ELSE IF c >= 194 /\ c <= 223 /\ n >= 2 /\ IsCont(At(b, i + 1))
        THEN [r |-> (c - 192) * 64 + (At(b, i + 1) - 128), w |-> 2]
      ELSE IF c >= 224 /\ c <= 239 /\ n >= 3 /\ IsCont(At(b, i + 1)) /\ IsCont(At(b, i + 2))
              /\ (c = 224 => At(b, i + 1) >= 160) /\ (c = 237 => At(b, i + 1) <= 159)
        THEN [r |-> (c - 224) * 4096 + (At(b, i + 1) - 128) * 64 + (At(b, i + 2) - 128), w |-> 3]
      ELSE [r |-> RuneError, w |-> 1]

EncodeRune(r) ==
  IF r < 128 THEN <<r>>
  ELSE IF r < 2048 THEN <<192 + (r \div 64), 128 + (r % 64)>>
  ELSE IF r >= 55296 /\ r <= 57343 THEN <<239, 191, 189>>
  ELSE <<224 + (r \div 4096), 128 + ((r \div 64) % 64), 128 + (r % 64)>>

\* []rune(string(b))
RECURSIVE RunesFrom(_, _)
RunesFrom(b, i) ==
  IF i >= Len(b) THEN <<>>
  ELSE LET d == DecodeRune(b, i) IN <<d.r>> \o RunesFrom(b, i + d.w)

Runes(b) == RunesFrom(b, 0)

\* []byte(string(rs))
RECURSIVE Encode(_)
Encode(rs) == IF rs = <<>> THEN <<>> ELSE EncodeRune(Head(rs)) \o Encode(Tail(rs))

(***************************************************************************)
(* package unicode, exact below U+0100 and for U+FEFF and U+FFFD           *)
(***************************************************************************)
IsUpper(r) == (r >= 65 /\ r <= 90) \/ (r >= 192 /\ r <= 214) \/ (r >= 216 /\ r <= 222)

IsLetter(r) ==
  \/ (r >= 65 /\ r <= 90) \/ (r >= 97 /\ r <= 122)
  \/ r \in {170, 181, 186}
  \/ (r >= 192 /\ r <= 214) \/ (r >= 216 /\ r <= 246) \/ (r >= 248 /\ r <= 255)

IsDigit(r) == r >= 48 /\ r <= 57

IsSpace(r) == r \in {9, 10, 11, 12, 13, 32, 133, 160}

(***************************************************************************)
(* The keyword table (keywords.go is not among the sources): reserved      *)
(* words, case-sensitive, some of them starting with an upper-case letter. *)
(***************************************************************************)
Keywords == {<<105, 102>>, <<78, 97, 78>>}

(***************************************************************************)
(* Helpers shared by the two bufio split functions                         *)
(***************************************************************************)
isQuot(r) == r = chBackquote \/ r = chSingleQuote \/ r = chDoubleQuote

alpha(r) == (r % 256) = chUnderscore \/ IsLetter(r)

alnum(r) == alpha(r) \/ IsDigit(r)

\* the punctuation predicate of the rune-based revision
isPunctRune(r) == ~alnum(r) /\ ~IsSpace(r) /\ ~isQuot(r)

\* alnum of the byte-based revision
alnumBytes(r) == IsLetter(r) \/ IsDigit(r) \/ (r % 256) = chUnderscore

\* the punctuation predicate of the byte-based revision
isPunctByte(r) == ~alnumBytes(r) /\ ~IsSpace(r)

\* a call f(r) of one of the func(r rune) bool values the split functions
\* hand to bytes.IndexFunc and lastContiguousIndexFunc, f given by name
Call(f, r) ==
  CASE f = "alnum" -> alnum(r)
    [] f = "unicode.IsDigit" -> IsDigit(r)
    [] f = "unicode.IsSpace" -> IsSpace(r)
    [] f = "punctuation" -> isPunctRune(r)
    [] f = "alnum (bytes)" -> alnumBytes(r)
    [] f = "punctuation (bytes)" -> isPunctByte(r)

\* bytes.IndexFunc over a valid UTF-8 encoding of rs: the byte offset of the
\* first rune r with f(r) = want, -1 when there is none (want = FALSE is the
\* wrapper func(r) { return !f(r) }).
RECURSIVE IndexFuncRunes(_, _, _, _)
IndexFuncRunes(rs, f, want, off) ==
  IF rs = <<>> THEN -1
  ELSE IF Call(f, Head(rs)) = want THEN off
  ELSE IndexFuncRunes(Tail(rs), f, want, off + Len(EncodeRune(Head(rs))))

\* bytes.IndexFunc over raw bytes: invalid bytes decode to RuneError, width 1.
RECURSIVE IndexFuncBytes(_, _, _, _)
IndexFuncBytes(b, f, want, i) ==
  IF i >= Len(b) THEN -1
  ELSE LET d == DecodeRune(b, i)
       IN  IF Call(f, d.r) = want THEN i ELSE IndexFuncBytes(b, f, want, i + d.w)

\* bytes.IndexByte(b[j:], c), relative to j
RECURSIVE IndexByteFrom(_, _, _, _)
IndexByteFrom(b, j, c, k) ==
  IF j + k >= Len(b) THEN -1
  ELSE IF At(b, j + k) = c THEN k
  ELSE IndexByteFrom(b, j, c, k + 1)

scannerInit == [kind |-> 0, quot |-> 0, typ |-> FALSE, name |-> FALSE]

NoToken(s) == [adv |-> 0, hasTok |-> FALSE, tok |-> <<>>, st |-> s, panic |-> FALSE]

Token(n, t, s) == [adv |-> n, hasTok |-> TRUE, tok |-> t, st |-> s, panic |-> FALSE]

Panic(s) == [adv |-> 0, hasTok |-> FALSE, tok |-> <<>>, st |-> s, panic |-> TRUE]

(***************************************************************************)
(* The rune-based revision: NewScanner's split function and its helpers    *)
(***************************************************************************)
lastContiguousIndexFunc(rs, f) ==
  LET i == IndexFuncRunes(rs, f, FALSE, 0)
  IN  (IF i = -1 THEN Len(Encode(rs)) ELSE i) - 1

RECURSIVE indexRuneFrom(_, _, _)
indexRuneFrom(rs, c, i) ==
  IF i >= Len(rs) THEN -1
  ELSE IF At(rs, i) = c THEN i
  ELSE indexRuneFrom(rs, c, i + 1)

indexRune(rs, c) == indexRuneFrom(rs, c, 0)

\* for i := 0; i < l-w; i++ { if string(src[i:i+w]) == c { return i } }
RECURSIVE indexRunesFrom(_, _, _)
indexRunesFrom(rs, c, i) ==
  IF i >= Len(rs) - Len(c) THEN -1
  ELSE IF Sub(rs, i, i + Len(c)) = c THEN i
  ELSE indexRunesFrom(rs, c, i + 1)

indexRunes(rs, c) == indexRunesFrom(rs, c, 0)

retRunes(rs, s) == Token(Len(Encode(rs)), Encode(rs), s)

retBytes(byteData, s) == Token(Len(byteData), byteData, s)

\* data[0:n] of a rune slice.  Past len(data) the expression is legal only up
\* to cap(data), which the runtime chooses: either the index panics or the
\* slice is extended over the zeroed spare capacity.
sliceRunes(data, n, s) ==
  IF n <= Len(data) THEN {retRunes(Sub(data, 0, n), s)}
  ELSE {Panic(s), retRunes(data \o [k \in 1..(n - Len(data)) |-> 0], s)}

\* for j := 1; j < len(data); j++ { ... } of the isQuot branch
RECURSIVE quotLoop(_, _, _, _, _)
quotLoop(byteData, data, j, atEOF, s) ==
  IF j >= Len(data) THEN NoToken(s)
  ELSE IF At(data, j) = chBackslash THEN quotLoop(byteData, data, j + 2, atEOF, s)
  ELSE IF At(data, j) = At(data, 0) THEN retRunes(Sub(data, 0, j + 1), s)
  ELSE IF atEOF THEN retBytes(byteData, s)
  ELSE quotLoop(byteData, data, j + 1, atEOF, s)

\* the identifier branch were the keyword lookup made only for tokens the
\* first letter has not marked TYPE
identRuneTypeFirst(data, s0) ==
  LET r == At(data, 0)
      s1 == IF IsUpper(r) THEN [s0 EXCEPT !.typ = TRUE, !.kind = TYPE]
            ELSE IF alpha(r) THEN [s0 EXCEPT !.name = TRUE, !.kind = PLAINTEXT]
            ELSE s0
      i == lastContiguousIndexFunc(data, "alnum")
      s2 == [s1 EXCEPT !.typ = FALSE, !.name = FALSE]
  IN  IF i >= 0
        THEN {IF t.hasTok /\ t.tok \in Keywords /\ s1.kind # TYPE
                THEN [t EXCEPT !.st.kind = KEYWORD] ELSE t :
                t \in sliceRunes(data, i + 1, s2)}
        ELSE {NoToken(s1)}

identRune(data, s0) ==
  LET r == At(data, 0)
      s1 == IF IsUpper(r) THEN [s0 EXCEPT !.typ = TRUE, !.kind = TYPE]
            ELSE IF alpha(r) THEN [s0 EXCEPT !.name = TRUE, !.kind = PLAINTEXT]
            ELSE s0
      i == lastContiguousIndexFunc(data, "alnum")
      s2 == [s1 EXCEPT !.typ = FALSE, !.name = FALSE]
  IN  IF i >= 0
        THEN {IF t.hasTok /\ t.tok \in Keywords THEN [t EXCEPT !.st.kind = KEYWORD] ELSE t :
                t \in sliceRunes(data, i + 1, s2)}
        ELSE {NoToken(s1)}

lineComment(byteData, data, atEOF, s0) ==
  LET s1 == [s0 EXCEPT !.kind = COMMENT]
      i == indexRune(data, chNewline)
  IN  IF i >= 0 THEN retRunes(Sub(data, 0, i + 1), s1)
      ELSE IF atEOF THEN retBytes(byteData, s1)
      ELSE NoToken(s1)

blockComment(byteData, data, atEOF, s0) ==
  LET s1 == [s0 EXCEPT !.kind = COMMENT]
      i == indexRunes(data, <<chStar, chSlash>>)
  IN  IF i >= 0 THEN sliceRunes(data, i + 2, s1)
      ELSE IF atEOF THEN {retBytes(byteData, s1)}
      ELSE {NoToken(s1)}

\* The split function: the set of results it can return for (byteData, atEOF)
\* with the scanner fields s0.
splitRunes(byteData, atEOF, s0) ==
  LET data == Runes(byteData)
      r == At(data, 0)
  IN  IF atEOF /\ Len(byteData) = 0 THEN {NoToken(s0)}
      ELSE IF isQuot(r)
        THEN {quotLoop(byteData, data, 1, atEOF, [s0 EXCEPT !.kind = STRINGKIND])}
      ELSE IF IsUpper(r) \/ alpha(r) \/ s0.typ \/ s0.name
        THEN identRune(data, s0)
      ELSE IF IsDigit(r)
        THEN LET i == lastContiguousIndexFunc(data, "unicode.IsDigit")
                 s1 == [s0 EXCEPT !.kind = DECIMAL]
             IN  IF i >= 0 THEN sliceRunes(data, i + 1, s1) ELSE {NoToken(s1)}
      ELSE IF IsSpace(r)
        THEN LET i == lastContiguousIndexFunc(data, "unicode.IsSpace")
                 s1 == [s0 EXCEPT !.kind = WHITESPACE]
             IN  IF i >= 0
                   THEN (IF i + 1 <= Len(data) THEN {retRunes(Sub(data, 0, i + 1), s1)}
                         ELSE {retRunes(data, s1)})
                 ELSE IF atEOF THEN {retBytes(byteData, s1)}
                 ELSE {NoToken(s1)}
      ELSE IF indexRunes(data, <<chSlash, chSlash>>) = 0 \/ indexRunes(data, <<chHash>>) = 0
        THEN {lineComment(byteData, data, atEOF, s0)}
      ELSE IF indexRunes(data, <<chSlash, chStar>>) = 0
        THEN blockComment(byteData, data, atEOF, s0)
      ELSE LET i == IndexFuncRunes(data, "punctuation", TRUE, 0)
           IN  IF i >= 0 THEN sliceRunes(data, i + 1, [s0 EXCEPT !.kind = PUNCTUATION])
               ELSE IF atEOF THEN {retBytes(byteData, s0)}
               ELSE {NoToken(s0)}

(***************************************************************************)
(* The byte-based revision: NewScanner's split function with the quot      *)
(* field                                                                   *)
(***************************************************************************)
lastContiguousIndexFuncBytes(b, f) ==
  LET i == IndexFuncBytes(b, f, FALSE, 0)
  IN  (IF i = -1 THEN Len(b) ELSE i) - 1

\* for j := 1; j < len(data); { ... } of the s.quot branch
RECURSIVE quotScan(_, _, _, _)
quotScan(data, j, atEOF, s) ==
  IF j >= Len(data) THEN NoToken(s)
  ELSE LET k == IndexByteFrom(data, j, s.quot, 0)
           i == k + j
       IN  IF k >= 0
             THEN (IF i > 0 /\ At(data, i - 1) = chBackslash
                     THEN quotScan(data, j + i, atEOF, s)
                   ELSE Token(i + 1, Sub(data, 0, i + 1), [s EXCEPT !.quot = 0]))
           ELSE IF atEOF THEN Token(Len(data), data, s)
           ELSE NoToken(s)

splitBytes(data, atEOF, s0) ==
  IF atEOF /\ Len(data) = 0 THEN {NoToken(s0)}
  ELSE IF s0.quot # 0 THEN {quotScan(data, 1, atEOF, s0)}
  ELSE
    LET r == DecodeRune(data, 0).r
        s1 == IF IsUpper(r) THEN [s0 EXCEPT !.typ = TRUE, !.kind = TYPE]
              ELSE IF IsLetter(r) THEN [s0 EXCEPT !.name = TRUE, !.kind = PLAINTEXT]
              ELSE s0
    IN  IF s1.typ \/ s1.name
          THEN LET i == lastContiguousIndexFuncBytes(data, "alnum (bytes)")
                   s2 == [s1 EXCEPT !.typ = FALSE, !.name = FALSE]
               IN  IF i >= 0
                     THEN {Token(i + 1, Sub(data, 0, i + 1),
                                 IF Sub(data, 0, i + 1) \in Keywords
                                   THEN [s2 EXCEPT !.kind = KEYWORD] ELSE s2)}
                   ELSE {NoToken(s1)}
        ELSE IF IsDigit(r)
          THEN LET i == lastContiguousIndexFuncBytes(data, "unicode.IsDigit")
                   s2 == [s1 EXCEPT !.kind = DECIMAL]
               IN  IF i >= 0 THEN {Token(i + 1, Sub(data, 0, i + 1), s2)} ELSE {NoToken(s2)}
        ELSE IF IsSpace(r)
          THEN LET i == lastContiguousIndexFuncBytes(data, "unicode.IsSpace")
                   s2 == [s1 EXCEPT !.kind = WHITESPACE]
               IN  IF i >= 0 THEN {Token(i + 1, Sub(data, 0, i + 1), s2)}
                   ELSE IF atEOF THEN {Token(Len(data), data, s2)}
                   ELSE {NoToken(s2)}
        ELSE LET i == lastContiguousIndexFuncBytes(data, "punctuation (bytes)")
             IN  IF i >= 0
                   THEN (IF isQuot(At(data, 0))
                           THEN {NoToken([s1 EXCEPT !.kind = STRINGKIND, !.quot = At(data, 0)])}
                         ELSE {Token(i + 1, Sub(data, 0, i + 1), [s1 EXCEPT !.kind = PUNCTUATION])})
                 ELSE IF atEOF THEN {Token(Len(data), data, s1)}
                 ELSE {NoToken(s1)}

(***************************************************************************)
(* bufio.Scanner.Scan over a bytes.Reader whose content fits the scanner's *)
(* initial buffer: the first Read delivers all of src, the next one reports*)
(* io.EOF.  start is the offset of the first byte not yet consumed; eof is *)
(* the scanner having seen io.EOF (the split function's atEOF).            *)
(***************************************************************************)
ErrNil == "nil"
ErrAdvanceTooFar == "bufio.Scanner: SplitFunc returns advance count beyond input"
ErrPanic == "panic: slice bounds out of range"

ScanResult(ok, tok, kind, pos, e, s, err) ==
  [ok |-> ok, tok |-> tok, kind |-> kind, start |-> pos, eof |-> e, st |-> s, err |-> err]

\* One call of the split function and what Scan does with its result; a
\* result of "more" means Scan goes on to read.
afterSplit(r, pos, n, e) ==
  IF r.panic THEN ScanResult(FALSE, <<>>, 0, pos, e, r.st, ErrPanic)
  ELSE IF r.adv > n THEN ScanResult(FALSE, <<>>, 0, pos, e, r.st, ErrAdvanceTooFar)
  ELSE IF r.hasTok THEN ScanResult(TRUE, r.tok, r.st.kind, pos + r.adv, e, r.st, ErrNil)
  ELSE ScanResult(FALSE, <<>>, 0, pos + r.adv, e, r.st, IF e THEN ErrNil ELSE "more")

\* the split function s.Split installed: NewScanner's of either revision
Split(revision, data, atEOF, s) ==
  IF revision = "bytes" THEN splitBytes(data, atEOF, s) ELSE splitRunes(data, atEOF, s)

Scan(revision, b, pos, e, s) ==
  LET data == Sub(b, pos, Len(b))
      first == IF Len(data) > 0 \/ e
                 THEN {afterSplit(r, pos, Len(data), e) : r \in Split(revision, data, e, s)}
               ELSE {ScanResult(FALSE, <<>>, 0, pos, e, s, "more")}
      again(f) == LET rest == Sub(b, f.start, Len(b))
                  IN  {afterSplit(r, f.start, Len(rest), TRUE) :
                         r \in Split(revision, rest, TRUE, f.st)}
  IN  UNION {IF f.err = "more" THEN again(f) ELSE {f} : f \in first}

(***************************************************************************)
(* HTMLConfig, HTMLAnnotator                                               *)
(***************************************************************************)
DefaultHTMLConfig ==
  [String |-> "str", Keyword |-> "kwd", Comment |-> "com", Type |-> "typ",
   Literal |-> "lit", Punctuation |-> "pun", Plaintext |-> "pln", Tag |-> "tag",
   HTMLTag |-> "htm", HTMLAttrName |-> "atn", HTMLAttrValue |-> "atv", Decimal |-> "dec"]

class(c, kind) ==
  CASE kind = STRINGKIND -> c.String
    [] kind = KEYWORD -> c.Keyword
    [] kind = COMMENT -> c.Comment
    [] kind = TYPE -> c.Type
    [] kind = LITERAL -> c.Literal
    [] kind = PUNCTUATION -> c.Punctuation
    [] kind = PLAINTEXT -> c.Plaintext
    [] kind = TAG -> c.Tag
    [] kind = HTMLTAG -> c.HTMLTag
    [] kind = HTMLATTRNAME -> c.HTMLAttrName
    [] kind = HTMLATTRVALUE -> c.HTMLAttrValue
    [] kind = DECIMAL -> c.Decimal
    [] OTHER -> ""

spanLeft(cls) == <<"<span class=\"", cls, "\">">>

spanRight == "</span>"

Annotation(s, e, cls) == [Start |-> s, End |-> e, Left |-> spanLeft(cls), Right |-> spanRight]

\* HTMLAnnotator.Annotate were End measured in code points, as the
\* rune-based revision's Annotate counts them, instead of bytes
HTMLAnnotateCodePoints(c, pos, tok, kind) ==
  IF class(c, kind) # "" THEN <<Annotation(pos, pos + Len(Runes(tok)), class(c, kind))>> ELSE <<>>

\* HTMLAnnotator.Annotate were End the offset after the byte that follows
\* the token
HTMLAnnotateEndBeyond(c, pos, tok, kind) ==
  IF class(c, kind) # "" THEN <<Annotation(pos, pos + Len(tok) + 1, class(c, kind))>> ELSE <<>>

\* HTMLAnnotator.Annotate: the annotation, or nothing (nil), as a list
HTMLAnnotate(c, pos, tok, kind) ==
  IF class(c, kind) # "" THEN <<Annotation(pos, pos + Len(tok), class(c, kind))>> ELSE <<>>

\* the rune-based revision counts code points
HTMLAnnotateRunes(c, pos, tok, kind) ==
  IF class(c, kind) # "" THEN <<Annotation(pos, pos + Len(Runes(tok)), class(c, kind))>> ELSE <<>>

(***************************************************************************)
(* Inputs                                                                  *)
(***************************************************************************)
MaxQuoteLen == 6
MaxTextLen == 4

QuoteAlphabet == {chDoubleQuote, chBackslash, 97, chSpace}
Utf8Alphabet == {195, 169, 255, 97, chSpace}
CommentAlphabet == {chSlash, chStar, chHash, chNewline, 97}
WordAlphabet == {78, 97, 50, 58, chUnderscore, chSingleQuote}

BufioInputs ==
  SeqsUpTo(QuoteAlphabet, MaxQuoteLen) \cup SeqsUpTo(Utf8Alphabet, MaxTextLen)
    \cup SeqsUpTo(CommentAlphabet, MaxTextLen) \cup SeqsUpTo(WordAlphabet, MaxTextLen)

NoReturn == [anns |-> <<>>, err |-> "pending"]

InitBufio ==
  /\ src \in BufioInputs
  /\ start = 0
  /\ eof = FALSE
  /\ st = scannerInit
  /\ pc = "scan"
  /\ serr = ErrNil
  /\ toks = <<>>
  /\ read = 0
  /\ anns = <<>>
  /\ ret = NoReturn
  /\ consumer = "HTMLAnnotator"
  /\ base = 0
  /\ lines = <<>>
  /\ out = <<>>
  /\ wfail = FALSE

TokenSeen(o) == [text |-> o.tok, kind |-> o.kind, at |-> start]

\* Annotate's return once Scan has reported the end: s.Err() decides
AnnotateEnd(o) ==
  /\ start' = o.start /\ eof' = o.eof /\ st' = o.st
  /\ serr' = o.err
  /\ pc' = IF o.err = ErrPanic THEN "panic" ELSE "done"
  /\ ret' = IF o.err = ErrPanic THEN ret
            ELSE IF o.err # ErrNil THEN [anns |-> <<>>, err |-> o.err]
            ELSE [anns |-> anns, err |-> ErrNil]
  /\ UNCHANGED <<src, toks, read, anns>>
  /\ UNCHANGED hvars

(***************************************************************************)
(* Annotate of the byte-based revision                                     *)
(***************************************************************************)
AnnotateBytesLoop ==
  /\ pc = "scan"
  /\ \E o \in Scan("bytes", src, start, eof, st) :
       /\ o.ok
       /\ start' = o.start /\ eof' = o.eof /\ st' = o.st
       /\ toks' = Append(toks, TokenSeen(o))
       /\ anns' = anns \o HTMLAnnotate(DefaultHTMLConfig, read, o.tok, o.kind)
       /\ read' = read + Len(o.tok)
  /\ UNCHANGED <<src, pc, serr, ret>>
  /\ UNCHANGED hvars

AnnotateBytesReturn ==
  /\ pc = "scan"
  /\ \E o \in Scan("bytes", src, start, eof, st) : ~o.ok /\ AnnotateEnd(o)

NextBytes == AnnotateBytesLoop \/ AnnotateBytesReturn

SpecBytes == InitBufio /\ [][NextBytes]_vars

(***************************************************************************)
(* Annotate of the rune-based revision                                     *)
(***************************************************************************)
AnnotateRunesLoop ==
  /\ pc = "scan"
  /\ \E o \in Scan("runes", src, start, eof, st) :
       /\ o.ok
       /\ start' = o.start /\ eof' = o.eof /\ st' = o.st
       /\ toks' = Append(toks, TokenSeen(o))
       /\ anns' = anns \o HTMLAnnotateRunes(DefaultHTMLConfig, read, o.tok, o.kind)
       /\ read' = read + Len(Runes(o.tok))
  /\ UNCHANGED <<src, pc, serr, ret>>
  /\ UNCHANGED hvars

AnnotateRunesReturn ==
  /\ pc = "scan"
  /\ \E o \in Scan("runes", src, start, eof, st) : ~o.ok /\ AnnotateEnd(o)

NextRunes == AnnotateRunesLoop \/ AnnotateRunesReturn

SpecRunes == InitBufio /\ [][NextRunes]_vars

(***************************************************************************)
(* highlight.go: the scanner NewScanner configures.  text/scanner with     *)
(* Mode = GoTokens without SkipComments and Whitespace = 0 returns          *)
(* identifiers, numbers, char, string and raw-string literals and comments, *)
(* and every other character, white space included, as a token of its own. *)
(* A token's text is the source bytes it spans.  Number scanning is the     *)
(* decimal digit run: the alphabets below hold no 0, '.', '_' or exponent   *)
(* letter.                                                                  *)
(***************************************************************************)
ByteOrderMark == 65279
EOF == -1
Ident == -2
IntTok == -3
FloatTok == -4
CharTok == -5
StringTok == -6
RawStringTok == -7
CommentTok == -8

\* the character at byte offset p, EOF past the end
Ch(b, p) == IF p >= Len(b) THEN EOF ELSE DecodeRune(b, p).r

\* the offset after the character at p
Nx(b, p) == IF p >= Len(b) THEN p ELSE p + DecodeRune(b, p).w

isIdentRune(ch, i) == ch = chUnderscore \/ (ch >= 0 /\ IsLetter(ch)) \/ (ch >= 0 /\ IsDigit(ch) /\ i > 0)

RECURSIVE scanIdentifier(_, _)
scanIdentifier(b, p) == IF isIdentRune(Ch(b, p), 1) THEN scanIdentifier(b, Nx(b, p)) ELSE p

RECURSIVE scanMantissa(_, _)
scanMantissa(b, p) ==
  IF Ch(b, p) >= 0 /\ IsDigit(Ch(b, p)) THEN scanMantissa(b, Nx(b, p)) ELSE p

digitVal(ch) ==
  IF ch >= 48 /\ ch <= 57 THEN ch - 48
  ELSE IF ch >= 97 /\ ch <= 102 THEN ch - 97 + 10
  ELSE IF ch >= 65 /\ ch <= 70 THEN ch - 65 + 10
  ELSE 16

RECURSIVE scanDigits(_, _, _, _)
scanDigits(b, p, radix, n) ==
  IF n > 0 /\ digitVal(Ch(b, p)) < radix THEN scanDigits(b, Nx(b, p), radix, n - 1) ELSE p

\* p is the offset of the character after the backslash
scanEscape(b, p, quote) ==
  LET ch == Ch(b, p)
  IN  IF ch \in {97, 98, 102, 110, 114, 116, 118, chBackslash, quote} THEN Nx(b, p)
      ELSE IF ch >= 48 /\ ch <= 55 THEN scanDigits(b, p, 8, 3)
      ELSE IF ch = 120 THEN scanDigits(b, Nx(b, p), 16, 2)
      ELSE IF ch = 117 THEN scanDigits(b, Nx(b, p), 16, 4)
      ELSE IF ch = 85 THEN scanDigits(b, Nx(b, p), 16, 8)
      ELSE p

\* p is the offset of the character under inspection; the result is the
\* offset of the character scanString stops at (the closing quote, the
\* newline, or the end of input)
RECURSIVE scanString(_, _, _)
scanString(b, p, quote) ==
  LET ch == Ch(b, p)
  IN  IF ch = quote THEN p
      ELSE IF ch = chNewline \/ ch < 0 THEN p
      ELSE IF ch = chBackslash THEN scanString(b, scanEscape(b, Nx(b, p), quote), quote)
      ELSE scanString(b, Nx(b, p), quote)

RECURSIVE scanRawString(_, _)
scanRawString(b, p) ==
  LET ch == Ch(b, p)
  IN  IF ch = chBackquote \/ ch < 0 THEN p ELSE scanRawString(b, Nx(b, p))

RECURSIVE scanLineComment(_, _)
scanLineComment(b, p) ==
  IF Ch(b, p) # chNewline /\ Ch(b, p) >= 0 THEN scanLineComment(b, Nx(b, p)) ELSE p

\* p is the offset of ch0's successor candidate: the loop of the general comment
RECURSIVE scanGeneralComment(_, _)
scanGeneralComment(b, p) ==
  IF Ch(b, p) < 0 THEN p
  ELSE IF Ch(b, p) = chStar /\ Ch(b, Nx(b, p)) = chSlash THEN Nx(b, Nx(b, p))
  ELSE scanGeneralComment(b, Nx(b, p))

\* Scanner.Scan at offset p: the token and the offset after its text
ScanText(b, p) ==
  LET ch == Ch(b, p)
      q == Nx(b, p)
  IN  IF ch = EOF THEN [tok |-> EOF, end |-> p]
      ELSE IF isIdentRune(ch, 0) THEN [tok |-> Ident, end |-> scanIdentifier(b, q)]
      ELSE IF IsDigit(ch) THEN [tok |-> IntTok, end |-> scanMantissa(b, q)]
      ELSE IF ch = chDoubleQuote
        THEN [tok |-> StringTok, end |-> Nx(b, scanString(b, q, chDoubleQuote))]
      ELSE IF ch = chSingleQuote
        THEN [tok |-> CharTok, end |-> Nx(b, scanString(b, q, chSingleQuote))]
      ELSE IF ch = chSlash /\ Ch(b, q) = chSlash
        THEN [tok |-> CommentTok, end |-> scanLineComment(b, Nx(b, q))]
      ELSE IF ch = chSlash /\ Ch(b, q) = chStar
        THEN [tok |-> CommentTok, end |-> scanGeneralComment(b, Nx(b, q))]
      ELSE IF ch = chBackquote
        THEN [tok |-> RawStringTok, end |-> Nx(b, scanRawString(b, q))]
      ELSE [tok |-> ch, end |-> q]

tokenKind(tok, tokText) ==
  IF tok = Ident
    THEN (IF tokText \in Keywords THEN KEYWORD
          ELSE IF IsUpper(DecodeRune(tokText, 0).r) THEN TYPE
          ELSE PLAINTEXT)
  ELSE IF tok \in {FloatTok, IntTok} THEN DECIMAL
  ELSE IF tok \in {CharTok, StringTok, RawStringTok} THEN STRINGKIND
  ELSE IF tok = CommentTok THEN COMMENT
  ELSE IF tok >= 0 /\ IsSpace(tok) THEN WHITESPACE
  ELSE PUNCTUATION

(***************************************************************************)
(* html.EscapeString and template.HTMLEscape (the same five replacements)  *)
(***************************************************************************)
escapeByte(c) ==
  IF c = chAmp THEN <<38, 97, 109, 112, 59>>
  ELSE IF c = chSingleQuote THEN <<38, 35, 51, 57, 59>>
  ELSE IF c = chLess THEN <<38, 108, 116, 59>>
  ELSE IF c = chGreater THEN <<38, 103, 116, 59>>
  ELSE IF c = chDoubleQuote THEN <<38, 35, 51, 52, 59>>
  ELSE <<c>>

RECURSIVE EscapeString(_)
EscapeString(b) == IF b = <<>> THEN <<>> ELSE escapeByte(Head(b)) \o EscapeString(Tail(b))

(***************************************************************************)
(* NilAnnotator                                                            *)
(***************************************************************************)
\* a Line entry: a literal string, or a *sourcegraph.SourceCodeToken
Literal(txt) == [lit |-> TRUE, StartByte |-> 0, EndByte |-> 0, Class |-> "", Label |-> txt]

SourceCodeToken(s, e, cls, label) ==
  [lit |-> FALSE, StartByte |-> s, EndByte |-> e, Class |-> cls, Label |-> label]

SourceCodeLine(s) == [StartByte |-> s, EndByte |-> 0, Tokens |-> <<>>]

addToken(ls, t) ==
  LET line == ls[Len(ls)]
      n == Len(line.Tokens)
  IN  IF t.lit /\ n > 0 /\ line.Tokens[n].lit
        THEN [ls EXCEPT ![Len(ls)].Tokens[n] = Literal(t.Label \o line.Tokens[n].Label)]
      ELSE [ls EXCEPT ![Len(ls)].Tokens = Append(line.Tokens, t)]

addLine(ls, startByte) ==
  LET appended == Append(ls, SourceCodeLine(startByte))
  IN  IF Len(appended) > 1
        THEN [appended EXCEPT ![Len(appended) - 1].EndByte = startByte - 1]
      ELSE appended

NewNilAnnotator(startByte) == addLine(<<>>, startByte)

\* strings.Split(text, "\n")
RECURSIVE splitLines(_, _)
splitLines(text, cur) ==
  IF text = <<>> THEN <<cur>>
  ELSE IF Head(text) = chNewline THEN <<cur>> \o splitLines(Tail(text), <<>>)
  ELSE splitLines(Tail(text), Append(cur, Head(text)))

RECURSIVE multilineLoop(_, _, _)
multilineLoop(ls, startByte, segs) ==
  IF segs = <<>> THEN ls
  ELSE LET text == Head(segs)
           l1 == IF Len(text) > 0
                   THEN addToken(ls, SourceCodeToken(startByte, startByte + Len(text), "com", text))
                 ELSE ls
           sb == IF Len(text) > 0 THEN startByte + Len(text) ELSE startByte
           l2 == IF Len(segs) > 1 THEN addLine(l1, sb) ELSE l1
       IN  multilineLoop(l2, sb, Tail(segs))

addMultilineComment(ls, startByte, text) == multilineLoop(ls, startByte, splitLines(text, <<>>))

hasNewline(text) == \E i \in 1..Len(text) : text[i] = chNewline

\* NilAnnotator.Annotate: the Lines after the call (it returns nil, nil)
NilAnnotate(ls, byteOffset, pos, kind, tokText) ==
  LET cls == class(DefaultHTMLConfig, kind)
      txt == EscapeString(tokText)
      s == pos + byteOffset
  IN  IF tokText = <<chNewline>> THEN addLine(ls, s + 1)
      ELSE IF cls = "" THEN addToken(ls, Literal(txt))
      ELSE IF cls = "com" /\ hasNewline(tokText) THEN addMultilineComment(ls, s + 1, tokText)
      ELSE addToken(ls, SourceCodeToken(s, s + Len(tokText), cls, txt))

(***************************************************************************)
(* HTMLPrinter over a sink whose writes can fail.  fault names the first   *)
(* write of the call that fails: one of the three that open the span, the  *)
(* escaped text, the closing tag.  template.HTMLEscape returns nothing, so *)
(* after a failed text write the closing tag is still written, and that    *)
(* write fails ("text+close") or not ("text").                             *)
(***************************************************************************)
ErrWrite == "write failed"

Markup(m) == [m |-> m, b |-> <<>>]

Text(b) == [m |-> "", b |-> b]

SinkFaults == {"none", "w1", "w2", "w3", "text", "text+close", "close"}

Written(o, err) == [out |-> o, err |-> err]

HTMLPrint(c, o, kind, tokText, fault) ==
  LET cls == class(c, kind)
      esc == Text(EscapeString(tokText))
      o1 == Append(o, Markup("<span class=\""))
      o2 == Append(o1, Markup(cls))
      o3 == Append(o2, Markup("\">"))
  IN  IF cls = ""
        THEN (IF fault = "none" THEN Written(Append(o, esc), ErrNil) ELSE Written(o, ErrNil))
      ELSE CASE fault = "w1" -> Written(o, ErrWrite)
             [] fault = "w2" -> Written(o1, ErrWrite)
             [] fault = "w3" -> Written(o2, ErrWrite)
             [] fault = "text" -> Written(Append(o3, Markup(spanRight)), ErrNil)
             [] fault = "text+close" -> Written(o3, ErrWrite)
             [] fault = "close" -> Written(Append(o3, esc), ErrWrite)
             [] OTHER -> Written(Append(Append(o3, esc), Markup(spanRight)), ErrNil)

\* the faults that can occur in a call: an unwrapped token is one text write
FaultsFor(c, kind) == IF class(c, kind) = "" THEN {"none", "text"} ELSE SinkFaults

(***************************************************************************)
(* highlight.go: Annotate and the Print driver.  Annotate takes any         *)
(* Annotator: besides HTMLAnnotator and NilAnnotator, which never return an *)
(* error, the model has FailingAnnotator, an Annotator that answers as      *)
(* HTMLAnnotator does and can return an error instead at any token.         *)
(***************************************************************************)
ErrAnnotate == "annotate failed"

\* Annotate's return were the annotations collected so far handed back with
\* the error
returnCollectedErr(collected, err) == [anns |-> collected, err |-> err]

\* if err != nil { return nil, err }
returnNilErr(collected, err) == [anns |-> <<>>, err |-> err]

MaxCommentLen == 6
MaxPrintLen == 3

TestAlphabet == {97, 78, 50, 58, 61, chSpace}
LineAlphabet == {chSlash, chStar, chNewline, 97}
SpaceAlphabet == {chSpace, chTab, chNewline, 97}
StringAlphabet == {chDoubleQuote, chBackquote, chNewline, chLess, 97}
EscapeAlphabet == {chLess, chDoubleQuote, chSpace, 97}

\* sources that begin with the UTF-8 encoding of a byte order mark
BomInputs == {Encode(<<ByteOrderMark>>) \o s : s \in SeqsUpTo({chNewline, 97}, MaxPrintLen)}

HTMLInputs ==
  SeqsUpTo(TestAlphabet, MaxTextLen) \cup SeqsUpTo(Utf8Alphabet, MaxTextLen) \cup BomInputs

\* general comments whose body holds newlines and characters EscapeString
\* rewrites
MarkupCommentInputs ==
  {<<chSlash, chStar>> \o s \o <<chStar, chSlash>> :
     s \in SeqsUpTo({chLess, chAmp, chNewline}, MaxPrintLen)}

NilInputs ==
  SeqsUpTo(LineAlphabet, MaxCommentLen) \cup SeqsUpTo(SpaceAlphabet, MaxTextLen)
    \cup SeqsUpTo(StringAlphabet, MaxTextLen) \cup BomInputs \cup MarkupCommentInputs

PrintInputs == SeqsUpTo(EscapeAlphabet, MaxPrintLen)

\* e.StartByte of the file range handed to NewNilAnnotator
Bases == {0, 3}

InitText ==
  /\ consumer \in {"HTMLAnnotator", "NilAnnotator", "HTMLPrinter", "FailingAnnotator"}
  /\ src \in (CASE consumer = "HTMLAnnotator" -> HTMLInputs
                [] consumer = "NilAnnotator" -> NilInputs
                [] OTHER -> PrintInputs)
  /\ base \in (IF consumer = "NilAnnotator" THEN Bases ELSE {0})
  /\ lines = IF consumer = "NilAnnotator" THEN NewNilAnnotator(base) ELSE <<>>
  /\ start = 0
  /\ eof = FALSE
  /\ st = scannerInit
  /\ pc = "scan"
  /\ serr = ErrNil
  /\ toks = <<>>
  /\ read = 0
  /\ anns = <<>>
  /\ ret = NoReturn
  /\ out = <<>>
  /\ wfail = FALSE

\* Scanner.Peek: before the very first character a byte order mark is read
\* and ignored, so the first token's text begins after it
Peek(b, p) == IF p = 0 /\ Ch(b, 0) = ByteOrderMark THEN Nx(b, 0) ELSE p

\* the token t scanned at offset p: its type, text (the bytes from p to its
\* end), kind and the offset of its text in the source
TokenAt(b, p, t) ==
  [tok |-> t.tok, at |-> p, end |-> t.end, text |-> Sub(b, p, t.end),
   kind |-> IF t.tok = EOF THEN 0 ELSE tokenKind(t.tok, Sub(b, p, t.end))]

\* the token Scan returns next
NextToken == TokenAt(src, Peek(src, start), ScanText(src, Peek(src, start)))

AnnotateLoop ==
  /\ pc = "scan"
  /\ consumer \in {"HTMLAnnotator", "NilAnnotator", "FailingAnnotator"}
  /\ NextToken.tok # EOF
  /\ \E t \in {NextToken} :
       /\ start' = t.end
       /\ toks' = Append(toks, [text |-> t.text, kind |-> t.kind, at |-> t.at])
       /\ anns' = IF consumer \in {"HTMLAnnotator", "FailingAnnotator"}
                    THEN anns \o HTMLAnnotate(DefaultHTMLConfig, read, t.text, t.kind)
                  ELSE anns
       /\ lines' = IF consumer = "NilAnnotator"
                     THEN NilAnnotate(lines, base, read, t.kind, t.text)
                   ELSE lines
       /\ read' = read + Len(t.text)
  /\ UNCHANGED <<src, eof, st, pc, serr, ret, consumer, base, out, wfail>>

AnnotateReturn ==
  /\ pc = "scan"
  /\ consumer \in {"HTMLAnnotator", "NilAnnotator", "FailingAnnotator"}
  /\ NextToken.tok = EOF
  /\ pc' = "done"
  /\ ret' = [anns |-> anns, err |-> ErrNil]
  /\ UNCHANGED <<src, start, eof, st, serr, toks, read, anns, consumer, base, lines, out, wfail>>

\* an iteration of Annotate's loop in which the Annotator returns an error:
\* the token has been scanned and handed to the callback, read and anns are
\* not updated
AnnotateError ==
  /\ pc = "scan"
  /\ consumer = "FailingAnnotator"
  /\ NextToken.tok # EOF
  /\ \E t \in {NextToken} :
       /\ start' = t.end
       /\ toks' = Append(toks, [text |-> t.text, kind |-> t.kind, at |-> t.at])
  /\ pc' = "done"
  /\ ret' = returnNilErr(anns, ErrAnnotate)
  /\ UNCHANGED <<src, eof, st, serr, read, anns, consumer, base, lines, out, wfail>>

PrintLoop ==
  /\ pc = "scan"
  /\ consumer = "HTMLPrinter"
  /\ \E t \in {NextToken} :
       /\ t.tok # EOF
       /\ \E fault \in FaultsFor(DefaultHTMLConfig, t.kind) :
            \E w \in {HTMLPrint(DefaultHTMLConfig, out, t.kind, t.text, fault)} :
              /\ start' = t.end
              /\ toks' = Append(toks, [text |-> t.text, kind |-> t.kind, at |-> t.at])
              /\ out' = w.out
              /\ wfail' = (wfail \/ fault # "none")
              /\ pc' = IF w.err # ErrNil THEN "done" ELSE "scan"
              /\ ret' = IF w.err # ErrNil THEN [anns |-> <<>>, err |-> w.err] ELSE ret
  /\ UNCHANGED <<src, eof, st, serr, read, anns, consumer, base, lines>>

PrintReturn ==
  /\ pc = "scan"
  /\ consumer = "HTMLPrinter"
  /\ NextToken.tok = EOF
  /\ pc' = "done"
  /\ ret' = [anns |-> <<>>, err |-> ErrNil]
  /\ UNCHANGED <<src, start, eof, st, serr, toks, read, anns, consumer, base, lines, out, wfail>>

NextText == AnnotateLoop \/ AnnotateReturn \/ AnnotateError \/ PrintLoop \/ PrintReturn

SpecText == InitText /\ [][NextText]_vars

(***************************************************************************)
(* Claims about the bufio scanners                                         *)
(***************************************************************************)
TokenTexts == [i \in 1..Len(toks) |-> toks[i].text]

\* C1: once Scan has reported the end, the token texts concatenated in
\* emission order are the input, byte for byte, and their lengths sum to the
\* input's length.
C1_TokensReproduceInput ==
  pc = "done" => Flatten(TokenTexts) = src /\ SumLen(TokenTexts) = Len(src)

\* A string literal in the sense of the claims: an opening quote, a body in
\* which every matching quote is immediately preceded by a backslash and
\* every backslash escapes such a quote, and a closing matching quote that
\* no backslash precedes.
IsLiteral(l) ==
  /\ Len(l) >= 2
  /\ isQuot(l[1])
  /\ l[Len(l)] = l[1]
  /\ (Len(l) > 2 => l[Len(l) - 1] # chBackslash)
  /\ \A i \in 2..(Len(l) - 1) :
       /\ l[i] = l[1] => l[i - 1] = chBackslash
       /\ l[i] = chBackslash => l[i + 1] = l[1] /\ l[i - 1] # chBackslash

EscapedQuotes(l) == Cardinality({i \in 2..(Len(l) - 1) : l[i] = l[1]})

\* C3: an input that begins with a string literal, whatever the number of
\* escaped quotes in its body, has that literal as its first token, of kind
\* String, once the pass is over.
C3_EscapedQuoteKeepsString ==
  \A n \in 2..Len(src) :
    (pc = "done" /\ IsLiteral(SubSeq(src, 1, n))) =>
      /\ Len(toks) >= 1
      /\ toks[1].text = SubSeq(src, 1, n)
      /\ toks[1].kind = STRINGKIND

\* Offsets at which the scanner began, or would begin, a token
TokenStarts == {toks[i].at : i \in 1..Len(toks)} \cup {start}

Unterminated(p) ==
  /\ p < Len(src)
  /\ isQuot(At(src, p))
  /\ \A i \in (p + 1)..(Len(src) - 1) :
       At(src, i) = At(src, p) => At(src, i - 1) = chBackslash

\* C4: when a quote opens a string that nothing terminates, the pass ends
\* without error and its last token is the String token made of all bytes
\* from that quote to the end of input.
C4_UnterminatedStringIsLastToken ==
  \A p \in TokenStarts :
    (pc = "done" /\ Unterminated(p)) =>
      /\ ret.err = ErrNil
      /\ Len(toks) >= 1
      /\ toks[Len(toks)] = [text |-> Sub(src, p, Len(src)), kind |-> STRINGKIND, at |-> p]

\* C5: every pass ends with Scanner.Err() == nil
C5_ScannerIsTotal == pc \in {"done", "panic"} => serr = ErrNil

(***************************************************************************)
(* Claims about Annotate with HTMLAnnotator                                *)
(***************************************************************************)
\* the summed byte length of the tokens before the i-th
LengthBefore(i) == SumLen([j \in 1..(i - 1) |-> toks[j].text])

\* the annotations the claim describes for the tokens i..Len(toks)
RECURSIVE ExpectedAnnotations(_)
ExpectedAnnotations(i) ==
  IF i > Len(toks) THEN <<>>
  ELSE IF class(DefaultHTMLConfig, toks[i].kind) = "" THEN ExpectedAnnotations(i + 1)
  ELSE <<[Start |-> LengthBefore(i),
          End |-> LengthBefore(i) + Len(toks[i].text),
          Left |-> <<"<span class=\"", class(DefaultHTMLConfig, toks[i].kind), "\">">>,
          Right |-> "</span>"]>> \o ExpectedAnnotations(i + 1)

Span(s, e, cls) ==
  [Start |-> s, End |-> e, Left |-> <<"<span class=\"", cls, "\">">>, Right |-> "</span>"]

\* C2: Annotate with HTMLAnnotator holds, after every token, one annotation
\* per token of non-empty class and none for the others, in token order, each
\* starting at the summed byte length of the tokens before it and as long as
\* its token, wrapped in the span of its class; it returns them without
\* error; and `a:=2` returns pln, pun, pun, dec over [0,1), [1,2), [2,3), [3,4).
C2_AnnotationPerClassifiedToken ==
  consumer = "HTMLAnnotator" =>
    /\ anns = ExpectedAnnotations(1)
    /\ pc = "done" => ret = [anns |-> ExpectedAnnotations(1), err |-> ErrNil]
    /\ (pc = "done" /\ src = <<97, 58, 61, 50>>) =>
         ret.anns = <<Span(0, 1, "pln"), Span(1, 2, "pun"), Span(2, 3, "pun"), Span(3, 4, "dec")>>

\* Annotate has returned the four annotations of `a:=2`
C2_Witness ==
  /\ consumer = "HTMLAnnotator"
  /\ pc = "done"
  /\ src = <<97, 58, 61, 50>>
  /\ Len(ret.anns) = 4

(***************************************************************************)
(* Claims about NilAnnotator                                               *)
(***************************************************************************)
LastToken == toks[Len(toks)]

\* C6: once NilAnnotator has received a comment with k >= 1 newlines, the
\* last k+1 Lines hold its segments: every non-empty segment is the last
\* token of its Line, classified com, labelled with the segment and ranging
\* over the segment's true bytes (base offset + offset in the source), alone
\* in its Line after the first; every Line after the first starts at the
\* byte after the newline that opened it.
C6_MultilineCommentSegments ==
  (consumer = "NilAnnotator" /\ Len(toks) > 0 /\ LastToken.kind = COMMENT
     /\ hasNewline(LastToken.text)) =>
    LET segs == splitLines(LastToken.text, <<>>)
        k == Len(segs) - 1
        first == Len(lines) - k
        SegStart(j) == base + LastToken.at + SumLen(SubSeq(segs, 1, j - 1)) + (j - 1)
    IN  /\ first >= 1
        /\ \A j \in 1..(k + 1) :
             LET line == lines[first + j - 1]
             IN  /\ j > 1 => line.StartByte = SegStart(j)
                 /\ segs[j] # <<>> =>
                      /\ line.Tokens # <<>>
                      /\ line.Tokens[Len(line.Tokens)] =
                           SourceCodeToken(SegStart(j), SegStart(j) + Len(segs[j]), "com", segs[j])
                      /\ j > 1 => Len(line.Tokens) = 1
                 /\ (segs[j] = <<>> /\ j > 1) => line.Tokens = <<>>

(***************************************************************************)
(* Claims about HTMLPrinter and Print                                      *)
(***************************************************************************)
\* C7: once a write to the sink has failed, Print has returned that failure
\* and prints no further token.
C7_WriteFailureIsReturned ==
  (consumer = "HTMLPrinter" /\ wfail) => (pc = "done" /\ ret.err = ErrWrite)

(***************************************************************************)
(* Claims about the Lines of NilAnnotator                                  *)
(***************************************************************************)
\* the token is handed to addToken as literal text
IsLiteralToken(i) ==
  class(DefaultHTMLConfig, toks[i].kind) = "" /\ toks[i].text # <<chNewline>>

\* the index of the first token of the literal run the tokens end with
RunStart ==
  CHOOSE f \in 1..(Len(toks) + 1) :
    /\ \A i \in f..Len(toks) : IsLiteralToken(i)
    /\ f = 1 \/ ~IsLiteralToken(f - 1)

\* C8: when the tokens received so far end with a run of literal tokens, the
\* last entry of the current Line is one literal whose text is their escaped
\* texts concatenated in source order, and the entry before it, if any, is a
\* classified token.
C8_LiteralRunsMergeInOrder ==
  (consumer = "NilAnnotator" /\ RunStart <= Len(toks)) =>
    LET line == lines[Len(lines)]
        n == Len(line.Tokens)
        run == [i \in 1..(Len(toks) - RunStart + 1) |-> EscapeString(toks[RunStart + i - 1].text)]
    IN  /\ n >= 1
        /\ line.Tokens[n] = Literal(Flatten(run))
        /\ n > 1 => ~line.Tokens[n - 1].lit

\* the source bytes the absolute range [s, e) covers
Covered(s, e) == {src[q - base + 1] : q \in {x \in s..(e - 1) : x - base >= 0 /\ x - base < Len(src)}}

\* C9: after any tokens, every Line, the last included, has StartByte <= EndByte; its
\* classified tokens lie within [StartByte, EndByte), in increasing order
\* without overlap; none covers a newline byte.
C9_LineRanges ==
  (consumer = "NilAnnotator" /\ Len(toks) > 0) =>
    \A i \in 1..Len(lines) :
      LET l == lines[i]
          classified == {j \in 1..Len(l.Tokens) : ~l.Tokens[j].lit}
      IN  /\ l.StartByte <= l.EndByte
          /\ \A j \in classified :
               /\ l.StartByte <= l.Tokens[j].StartByte
               /\ l.Tokens[j].StartByte <= l.Tokens[j].EndByte
               /\ l.Tokens[j].EndByte <= l.EndByte
               /\ chNewline \notin Covered(l.Tokens[j].StartByte, l.Tokens[j].EndByte)
          /\ \A j1, j2 \in classified :
               j1 < j2 => l.Tokens[j1].EndByte <= l.Tokens[j2].StartByte

\* the first Line starts at the base offset and each Line starts at the byte
\* after the end of the Line before it
LinesChain ==
  consumer = "NilAnnotator" =>
    /\ lines[1].StartByte = base
    /\ \A i \in 1..(Len(lines) - 1) : lines[i + 1].StartByte = lines[i].EndByte + 1

\* a step that hands NilAnnotator a token leaves the earlier Lines as they
\* are, and a newline token at absolute offset p ends the current Line at p,
\* adds nothing to it, and opens an empty Line at p + 1
NewlineStep ==
  (consumer = "NilAnnotator" /\ pc = "scan" /\ NextToken.tok # EOF) =>
    /\ \A i \in 1..(Len(lines) - 1) : lines'[i] = lines[i]
    /\ NextToken.text = <<chNewline>> =>
         /\ Len(lines') = Len(lines) + 1
         /\ lines'[Len(lines)] = [lines[Len(lines)] EXCEPT !.EndByte = base + NextToken.at]
         /\ lines'[Len(lines')] = SourceCodeLine(base + NextToken.at + 1)

\* C10: the first Line starts at the base offset; a newline token at
\* absolute offset p sets the current Line's EndByte to p and opens a Line
\* with StartByte p + 1; consecutive Lines satisfy Line[i+1].StartByte =
\* Line[i].EndByte + 1; no token is added to a Line that is not the last.
C10_NewlineOpensLine == []LinesChain /\ [][NewlineStep]_vars

(***************************************************************************)
(* Claims about offsets                                                    *)
(***************************************************************************)
\* the annotations of the tokens i..Len(toks) when offsets are the bytes of
\* the input before each token and lengths are byte lengths
RECURSIVE ByteAnnotations(_)
ByteAnnotations(i) ==
  IF i > Len(toks) THEN <<>>
  ELSE IF class(DefaultHTMLConfig, toks[i].kind) = "" THEN ByteAnnotations(i + 1)
  ELSE <<Span(toks[i].at, toks[i].at + Len(toks[i].text),
              class(DefaultHTMLConfig, toks[i].kind))>> \o ByteAnnotations(i + 1)

\* C11: the cursor Annotate passes for a token is the number of input bytes
\* before the token, each annotation is as long as its token in bytes, and
\* the bytes of the input it ranges over are the token's text.
C11_OffsetsAreByteOffsets ==
  consumer = "HTMLAnnotator" =>
    /\ anns = ByteAnnotations(1)
    /\ read = start
    /\ \A i \in 1..Len(toks) :
         /\ toks[i].at + Len(toks[i].text) <= Len(src)
         /\ Sub(src, toks[i].at, toks[i].at + Len(toks[i].text)) = toks[i].text

(***************************************************************************)
(* Claims about Print and Annotate together                                *)
(***************************************************************************)
\* Annotate(b, HTMLAnnotator(DefaultHTMLConfig)) as a function of the
\* source: the annotations of the tokens from scanner offset p, cursor rd
RECURSIVE AnnotateFrom(_, _, _)
AnnotateFrom(b, p, rd) ==
  IF TokenAt(b, Peek(b, p), ScanText(b, Peek(b, p))).tok = EOF THEN <<>>
  ELSE HTMLAnnotate(DefaultHTMLConfig, rd,
                    TokenAt(b, Peek(b, p), ScanText(b, Peek(b, p))).text,
                    TokenAt(b, Peek(b, p), ScanText(b, Peek(b, p))).kind)
         \o AnnotateFrom(b, ScanText(b, Peek(b, p)).end,
                         rd + Len(TokenAt(b, Peek(b, p), ScanText(b, Peek(b, p))).text))

\* the annotations as laid over the buffer b from offset cur on, the text
\* escaped: what is written before, inside and after each span
RECURSIVE Overlay(_, _, _)
Overlay(b, as, cur) ==
  IF as = <<>> THEN <<Text(EscapeString(Sub(b, cur, Len(b))))>>
  ELSE <<Text(EscapeString(Sub(b, cur, Head(as).Start))),
         Markup(Head(as).Left[1]), Markup(Head(as).Left[2]), Markup(Head(as).Left[3]),
         Text(EscapeString(Sub(b, Head(as).Start, Head(as).End))),
         Markup(Head(as).Right)>> \o Overlay(b, Tail(as), Head(as).End)

\* an output with adjacent text writes joined and empty ones dropped
RECURSIVE Joined(_)
Joined(o) ==
  IF o = <<>> THEN <<>>
  ELSE IF Head(o).m = "" /\ Head(o).b = <<>> THEN Joined(Tail(o))
  ELSE IF Len(o) > 1 /\ Head(o).m = "" /\ o[2].m = ""
    THEN Joined(<<Text(Head(o).b \o o[2].b)>> \o Tail(Tail(o)))
  ELSE <<Head(o)>> \o Joined(Tail(o))

\* C12: Annotate's list holds, for every token of non-empty class at byte
\* range [s, e) of the source, an annotation at [s, e) with the span of the
\* class and none for the other tokens; and what Print has written, once it
\* has returned without a failed write, is the source with the annotation
\* list laid over it and the text escaped.
C12_PrintAndAnnotateAgree ==
  /\ consumer = "HTMLAnnotator" => anns = ByteAnnotations(1)
  /\ (consumer = "HTMLPrinter" /\ pc = "done" /\ ~wfail) =>
       Joined(out) = Joined(Overlay(src, AnnotateFrom(src, 0, 0), 0))

(***************************************************************************)
(* Claims about the kinds of tokens                                        *)
(***************************************************************************)
\* the text is a letter or underscore followed by letters, digits and
\* underscores
IdentifierShaped(b) ==
  /\ b # <<>>
  /\ Encode(Runes(b)) = b
  /\ IsLetter(Runes(b)[1]) \/ Runes(b)[1] = chUnderscore
  /\ \A k \in 1..Len(Runes(b)) :
       IsLetter(Runes(b)[k]) \/ IsDigit(Runes(b)[k]) \/ Runes(b)[k] = chUnderscore

\* the kind the claim gives an identifier by its text alone
IdentifierKind(b) ==
  IF b \in Keywords THEN KEYWORD
  ELSE IF IsUpper(DecodeRune(b, 0).r) THEN TYPE
  ELSE PLAINTEXT

\* C13: every identifier-shaped token has the kind its text alone decides:
\* KEYWORD when the text is in Keywords, whatever its first letter, else
\* TYPE when the first letter is upper case, else PLAINTEXT; and no token is
\* KEYWORD outside the set, TYPE or PLAINTEXT inside it, TYPE without an
\* upper-case first letter or PLAINTEXT with one.
C13_KeywordBeforeType ==
  \A i \in 1..Len(toks) :
    /\ IdentifierShaped(toks[i].text) => toks[i].kind = IdentifierKind(toks[i].text)
    /\ toks[i].kind \in {KEYWORD, TYPE, PLAINTEXT} => toks[i].kind = IdentifierKind(toks[i].text)

\* an upper-case keyword has been scanned after another token
C13_Witness ==
  /\ Len(toks) >= 2
  /\ toks[Len(toks)].text = <<78, 97, 78>>
  /\ toks[Len(toks)].kind = KEYWORD

(***************************************************************************)
(* Claims about the annotation list                                        *)
(***************************************************************************)
\* C14: in the list Annotate builds and returns, every span is non-empty and
\* lies within [0, len(src)], and each span ends at or before the start of
\* the next one.
C14_AnnotationsOrderedDisjoint ==
  consumer = "HTMLAnnotator" =>
    /\ \A i \in 1..Len(anns) :
         /\ 0 <= anns[i].Start
         /\ anns[i].Start < anns[i].End
         /\ anns[i].End <= Len(src)
    /\ \A i \in 1..(Len(anns) - 1) : anns[i].End <= anns[i + 1].Start
    /\ pc = "done" => ret.anns = anns

\* Annotate has returned three annotations, the last two apart
C14_Witness ==
  /\ consumer = "HTMLAnnotator"
  /\ pc = "done"
  /\ Len(ret.anns) = 3
  /\ ret.anns[2].End < ret.anns[3].Start

(***************************************************************************)
(* Claims about the split function of the rune-based revision              *)
(***************************************************************************)
\* the bytes not yet consumed
Unconsumed == Sub(src, start, Len(src))

\* C15: whenever Scan may call the split function, with or without atEOF,
\* the call returns either a token of at least one byte with an advance
\* equal to the token's length, the token being the bytes advanced over, or
\* no token and advance 0.
C15_TokensNonEmptyAdvanceExact ==
  pc = "scan" =>
    \A atEOF \in BOOLEAN :
      (atEOF \/ Unconsumed # <<>>) =>
        \A r \in Split("runes", Unconsumed, atEOF, st) :
          /\ ~r.panic
          /\ r.hasTok =>
               /\ Len(r.tok) >= 1
               /\ r.adv = Len(r.tok)
               /\ r.adv <= Len(Unconsumed)
               /\ r.tok = Sub(Unconsumed, 0, r.adv)
          /\ ~r.hasTok => r.adv = 0

\* the end of the maximal run of characters from byte offset p that are not
\* alphanumeric, not white space and not quote characters
RECURSIVE PunctuationRunEnd(_, _)
PunctuationRunEnd(b, p) ==
  IF p >= Len(b) THEN p
  ELSE LET d == DecodeRune(b, p)
       IN  IF isPunctRune(d.r) THEN PunctuationRunEnd(b, p + d.w) ELSE p

\* the input opens a comment at byte offset p
OpensComment(b, p) ==
  \/ At(b, p) = chHash
  \/ /\ p + 2 <= Len(b)
     /\ Sub(b, p, p + 2) \in {<<chSlash, chSlash>>, <<chSlash, chStar>>}

\* C16: a token that starts at a character which is not alphanumeric, not
\* white space, not a quote and does not open a comment is a Punctuation
\* token holding the maximal run of such characters: it ends right before
\* the first alphanumeric, white space or quote character, or at the end of
\* the input.
C16_PunctuationRunIsMaximal ==
  \A i \in 1..Len(toks) :
    ( /\ toks[i].at < Len(src)
      /\ isPunctRune(DecodeRune(src, toks[i].at).r)
      /\ ~OpensComment(src, toks[i].at) ) =>
        /\ toks[i].kind = PUNCTUATION
        /\ toks[i].text = Sub(src, toks[i].at, PunctuationRunEnd(src, toks[i].at))

\* the end of the maximal run of letters, digits and underscores from byte
\* offset p
RECURSIVE IdentifierRunEnd(_, _)
IdentifierRunEnd(b, p) ==
  IF p >= Len(b) THEN p
  ELSE LET d == DecodeRune(b, p)
       IN  IF alnum(d.r) THEN IdentifierRunEnd(b, p + d.w) ELSE p

\* C17: a token that starts at a letter or an underscore is an identifier
\* token (Type, PlainText or Keyword) whose text is exactly the maximal run
\* of letters, digits and underscores starting there, multi-byte letters
\* included, and it is a Keyword exactly when that run is a keyword.
C17_IdentifierRunIsExact ==
  \A i \in 1..Len(toks) :
    (toks[i].at < Len(src) /\ alpha(DecodeRune(src, toks[i].at).r)) =>
      /\ toks[i].kind \in {TYPE, PLAINTEXT, KEYWORD}
      /\ toks[i].text = Sub(src, toks[i].at, IdentifierRunEnd(src, toks[i].at))
      /\ toks[i].kind = KEYWORD <=>
           Sub(src, toks[i].at, IdentifierRunEnd(src, toks[i].at)) \in Keywords

\* the byte offset just past the first newline at or after p, the end of the
\* input when no newline follows
RECURSIVE LineEnd(_, _)
LineEnd(b, p) ==
  IF p >= Len(b) THEN Len(b)
  ELSE IF At(b, p) = chNewline THEN p + 1
  ELSE LineEnd(b, p + 1)

\* the input begins with // or # at byte offset p
OpensLineComment(b, p) ==
  \/ At(b, p) = chHash
  \/ p + 2 <= Len(b) /\ Sub(b, p, p + 2) = <<chSlash, chSlash>>

\* C18: a token that starts where the input begins with // or #, whatever
\* follows the prefix, is a Comment token that extends through the next
\* newline, or to the end of the input when no newline follows.
C18_LineCommentToEndOfLine ==
  \A i \in 1..Len(toks) :
    (toks[i].at < Len(src) /\ OpensLineComment(src, toks[i].at)) =>
      /\ toks[i].kind = COMMENT
      /\ toks[i].text = Sub(src, toks[i].at, LineEnd(src, toks[i].at))

(***************************************************************************)
(* Claims about NilAnnotator's tokens and about callback errors            *)
(***************************************************************************)
\* the texts a classified token can have been made from: a scanned token, or
\* a non-empty per-line segment of a scanned comment that spans lines
SourceTexts(k) ==
  IF toks[k].kind = COMMENT /\ hasNewline(toks[k].text)
    THEN {seg \in {splitLines(toks[k].text, <<>>)[j] :
                     j \in 1..Len(splitLines(toks[k].text, <<>>))} : seg # <<>>}
  ELSE {toks[k].text}

\* the Label holds none of the characters EscapeString rewrites, but for the
\* & that opens an entity
NoRawMarkup(label) ==
  \A i \in 1..Len(label) :
    /\ label[i] \notin {chLess, chGreater, chDoubleQuote, chSingleQuote}
    /\ label[i] = chAmp => i < Len(label) /\ label[i + 1] \in {35, 97, 103, 108}

\* C19: every classified token NilAnnotator has stored, the per-line
\* segments of a multiline comment included, has the class the configuration
\* maps its kind to and, as Label, the HTML-escaped text it was made from;
\* no <, >, & or quote is raw in a Label.
C19_LabelsAreEscaped ==
  consumer = "NilAnnotator" =>
    \A l \in 1..Len(lines) : \A n \in 1..Len(lines[l].Tokens) :
      ~lines[l].Tokens[n].lit =>
        /\ NoRawMarkup(lines[l].Tokens[n].Label)
        /\ \E k \in 1..Len(toks) :
             /\ lines[l].Tokens[n].Class = class(DefaultHTMLConfig, toks[k].kind)
             /\ \E x \in SourceTexts(k) : lines[l].Tokens[n].Label = EscapeString(x)

\* the callback has returned an error and the driver has returned
CallbackFailed == ret.err \in {ErrWrite, ErrAnnotate}

\* C20: the step in which the Printer or Annotator callback returns an error
\* ends the pass: the driver returns that error, Annotate with an empty
\* annotation list whatever it had collected, the failing token is the last
\* one scanned and handed to the callback; from then on no token is scanned
\* and the callback is not invoked again.
C20_CallbackErrorStopsPass ==
  [][ /\ CallbackFailed => UNCHANGED vars
      /\ (~CallbackFailed /\ CallbackFailed') =>
           /\ pc' = "done"
           /\ ret'.err = (IF consumer = "HTMLPrinter" THEN ErrWrite ELSE ErrAnnotate)
           /\ ret'.anns = <<>>
           /\ anns' = anns /\ read' = read
           /\ Len(toks') = Len(toks) + 1
           /\ start' = toks'[Len(toks')].at + Len(toks'[Len(toks')].text) ]_vars

C20_Witness ==
  /\ consumer = "FailingAnnotator"
  /\ pc = "done"
  /\ ret.err = ErrAnnotate
  /\ Len(anns) >= 1
  /\ ret.anns = <<>>
  /\ start < Len(src)

\* the number of newline bytes in b
RECURSIVE Newlines(_)
Newlines(b) ==
  IF b = <<>> THEN 0
  ELSE (IF Head(b) = chNewline THEN 1 ELSE 0) + Newlines(Tail(b))

\* C21: once NilAnnotator has received every token of the input, the number
\* of Lines is one plus the number of newline bytes of the input, whichever
\* kind of token holds each newline.
C21_OneLinePerNewline ==
  (consumer = "NilAnnotator" /\ pc = "done") => Len(lines) = 1 + Newlines(src)

====
